---------------------------- MODULE Spec2Model ----------------------------
(***************************************************************************)
(* gpsdio vector driver (gpsdio_vector_driver/core.py): class Vector.      *)
(*                                                                         *)
(* The driver resolves a field schema from the `fields` option, opens a    *)
(* point output stream with it, forwards one point feature per message     *)
(* that has both coordinates, buffers every (lon, lat) pair when a line    *)
(* file was asked for, and writes the buffered pairs as one LineString on  *)
(* close().                                                                *)
(*                                                                         *)
(* Python strings are sequences of symbols: a word without separator is    *)
(* one symbol, ":" and "," are symbols of their own, so str.split is       *)
(* computed on the text and not assumed.  Python values carried through    *)
(* the driver (coordinates, attribute values, None) are TLA+ strings.      *)
(* An OrderedDict is a sequence of <<key, value>> pairs with unique keys.  *)
(***************************************************************************)
EXTENDS Integers, Sequences, FiniteSets, TLC

VARIABLES
    pc,            \* position of the caller: "new", "failed", "ready", or inside close()
    args,          \* the arguments the constructor was called with
    raised,        \* exception raised by the last completed call, or "none"
    attrs,         \* names of the attributes that exist on the instance
    properties,    \* stream.meta['schema']['properties'], the resolved schema
    _line,         \* self._line
    _line_coords,  \* self._line_coords
    _line_meta,    \* self._line_meta
    stream,        \* state of self.stream: "unopened", "open", "closed"
    dst,           \* state of the line collection of close(): "unopened", "open", "closed"
    opens,         \* collections fio.open has returned so far: [path, mode, meta], in order
    pointFile,     \* features stored in the point destination
    lineFile,      \* features stored in the line destination
    calls,         \* write()/close() calls made so far: [op, msg], in order
    forwarded,     \* features handed to self.stream.write so far, in order
    overrides      \* the logical overrides a schema-resolution run expresses

vars == <<pc, args, raised, attrs, properties, _line, _line_coords, _line_meta,
          stream, dst, opens, pointFile, lineFile, calls, forwarded, overrides>>

-----------------------------------------------------------------------------
(* Bounds of the model. *)

MaxWrites == 3      \* write() calls per run
MaxCloses == 2      \* close() calls per run
MaxOverrides == 2   \* entries of a logical override list

-----------------------------------------------------------------------------
(* Python values. *)

None == "None"

\* Truth value of an optional path in `if self._line:`.
Truthy(v) == v # None /\ v # ""

\* dict.get(key): the value, or None when the key is missing.
Get(msg, key) == IF key \in DOMAIN msg THEN msg[key] ELSE None

\* s.split(sep): the pieces between the separators; always at least one piece.
RECURSIVE SplitFrom(_, _, _, _, _)
SplitFrom(s, sep, i, cur, acc) ==
    IF i > Len(s) THEN Append(acc, cur)
    ELSE IF s[i] = sep THEN SplitFrom(s, sep, i + 1, <<>>, Append(acc, cur))
    ELSE SplitFrom(s, sep, i + 1, Append(cur, s[i]), acc)

Split(s, sep) == SplitFrom(s, sep, 1, <<>>, <<>>)

\* s.split(sep, 1): cut at the first separator only; one piece when there is none.
SplitOnce(s, sep) ==
    IF \E i \in 1..Len(s) : s[i] = sep
    THEN LET i == CHOOSE k \in 1..Len(s) :
                      s[k] = sep /\ \A j \in 1..(k - 1) : s[j] # sep
         IN  <<SubSeq(s, 1, i - 1), SubSeq(s, i + 1, Len(s))>>
    ELSE <<s>>

\* sep.join(parts)
RECURSIVE Join(_, _)
Join(parts, sep) ==
    IF parts = <<>> THEN <<>>
    ELSE IF Len(parts) = 1 THEN parts[1]
    ELSE parts[1] \o <<sep>> \o Join(Tail(parts), sep)

-----------------------------------------------------------------------------
(* OrderedDict. *)

Keys(od) == {od[i][1] : i \in 1..Len(od)}

\* od[k] = v moving the key to the end, as delete-then-insert would.
SetItemMoveToEnd(od, k, v) ==
    Append(SelectSeq(od, LAMBDA p : p[1] # k), <<k, v>>)

\* od[k] = v: an existing key keeps its position, a new key goes last.
SetItem(od, k, v) ==
    IF k \in Keys(od)
    THEN [i \in 1..Len(od) |-> IF od[i][1] = k THEN <<k, v>> ELSE od[i]]
    ELSE Append(od, <<k, v>>)

\* od.update(**mapping): one assignment per item of the mapping, in its order.
RECURSIVE Update(_, _)
Update(od, items) ==
    IF items = <<>> THEN od
    ELSE Update(SetItem(od, items[1][1], items[1][2]), Tail(items))

\* Vector.default_fields
default_fields ==
    << <<<<"mmsi">>,      <<"int", ":", "30">>>>,
       <<<<"timestamp">>, <<"str", ":", "40">>>>,
       <<<<"course">>,    <<"float", ":", "12.1">>>>,
       <<<<"speed">>,     <<"float", ":", "10.1">>>>,
       <<<<"heading">>,   <<"int", ":", "7">>>> >>

-----------------------------------------------------------------------------
(* Schema resolution, lines 86-94 of __init__.                             *)
(* A fields argument is [kind, val]: kind "none" (None), "str", "list"     *)
(* (list or tuple of strings), "dict" (dict or OrderedDict, val its items  *)
(* in iteration order) or "other" (any other object, such as an int).      *)

\* The for loop of lines 92-94 that skips a token without a colon.
RECURSIVE ApplyTokensLenient(_, _)
ApplyTokensLenient(od, tokens) ==
    IF tokens = <<>> THEN [err |-> "none", properties |-> od]
    ELSE LET parts == SplitOnce(tokens[1], ":")
         IN  IF Len(parts) # 2 THEN ApplyTokensLenient(od, Tail(tokens))
             ELSE ApplyTokensLenient(SetItem(od, parts[1], parts[2]), Tail(tokens))

\* The for loop of lines 92-94: `name, definition = d.split(':', 1)` raises
\* ValueError when the token has no colon; otherwise properties[name] = definition.
RECURSIVE ApplyTokens(_, _)
ApplyTokens(od, tokens) ==
    IF tokens = <<>> THEN [err |-> "none", properties |-> od]
    ELSE LET parts == SplitOnce(tokens[1], ":")
         IN  IF Len(parts) # 2 THEN [err |-> "ValueError", properties |-> od]
             ELSE ApplyTokens(SetItem(od, parts[1], parts[2]), Tail(tokens))

\* Lines 86-94 with a final `else: raise TypeError`.
ResolveStrict(fields) ==
    LET flds == IF fields.kind = "str"
                THEN [kind |-> "list", val |-> Split(fields.val, ",")]
                ELSE fields
    IN  IF flds.kind = "dict"
        THEN [err |-> "none", properties |-> Update(default_fields, flds.val)]
        ELSE IF flds.kind = "list" THEN ApplyTokens(default_fields, flds.val)
        ELSE IF flds.kind = "none" THEN [err |-> "none", properties |-> default_fields]
        ELSE [err |-> "TypeError", properties |-> default_fields]

\* Lines 86-94: a string is split on commas (87-88); a mapping updates the copy of
\* the defaults (89-90); a list or tuple is applied token by token (91-94); any
\* other value, None included, matches no branch and leaves the defaults.
Resolve(fields) ==
    LET flds == IF fields.kind = "str"
                THEN [kind |-> "list", val |-> Split(fields.val, ",")]
                ELSE fields
    IN  IF flds.kind = "dict"
        THEN [err |-> "none", properties |-> Update(default_fields, flds.val)]
        ELSE IF flds.kind = "list" THEN ApplyTokens(default_fields, flds.val)
        ELSE [err |-> "none", properties |-> default_fields]

-----------------------------------------------------------------------------
(* The three syntaxes of the `fields` option (docstring, lines 61-66), as  *)
(* a caller writes a list `ov` of <<name, definition>> overrides in each.  *)

\* list - each element is `name:definition`.
AsList(ov) == [i \in 1..Len(ov) |-> ov[i][1] \o <<":">> \o ov[i][2]]

\* str - same as list but with a comma between each definition.
AsString(ov) == Join(AsList(ov), ",")

\* dict - {name: definition}; a repeated name keeps its first position and
\* its last definition, as in a dict display or dict(pairs).
AsMapping(ov) == Update(<<>>, ov)

NoFields == [kind |-> "none", val |-> <<>>]
OtherFields == [kind |-> "other", val |-> <<"5">>]
DictFields(ov) == [kind |-> "dict", val |-> AsMapping(ov)]
ListFields(ov) == [kind |-> "list", val |-> AsList(ov)]
StrFields(ov) == [kind |-> "str", val |-> AsString(ov)]

-----------------------------------------------------------------------------
(* Vector.__init__, lines 80-120.                                          *)

\* `meta` of lines 96-103.
PointMeta(props, crs, driver) ==
    [schema |-> [properties |-> props, geometry |-> "Point"],
     crs |-> crs, driver |-> driver]

\* Lines 113-115: a deep copy of meta with no properties and a LineString geometry.
LineMeta(meta) ==
    [meta EXCEPT !.schema = [properties |-> <<>>, geometry |-> "LineString"]]

\* The constructor raises `err`: no attribute is set, nothing has been opened.
InitRaises(err) ==
    /\ pc' = "failed"
    /\ raised' = err
    /\ UNCHANGED <<attrs, properties, _line, _line_coords, _line_meta,
                   stream, dst, opens, pointFile, lineFile>>

\* Vector(f, 'w', driver, line, crs, fields).  ioOk: whether fio.open of line 107
\* returns a collection (it raises otherwise, and the error propagates).
Construct(f, line, crs, driver, fields, ioOk) ==
    /\ pc = "new"
    /\ args' = [f |-> f, line |-> line, crs |-> crs, driver |-> driver,
                fields |-> fields]
    /\ UNCHANGED <<calls, forwarded, overrides>>
    /\ LET r == Resolve(fields)
           meta == PointMeta(r.properties, crs, driver)
       IN  IF f.type # "str" THEN InitRaises("TypeError")          \* 83-84
           ELSE IF r.err # "none" THEN InitRaises(r.err)           \* 86-94
           ELSE IF ~ioOk THEN InitRaises("IOError")                \* 107
           ELSE /\ pc' = "ready"
                /\ raised' = "none"
                /\ opens' = Append(opens, [path |-> f.val, mode |-> "w", meta |-> meta])
                /\ stream' = "open"                                \* 105-108
                /\ pointFile' = <<>>
                /\ properties' = r.properties
                /\ _line_coords' = <<>>                            \* 111
                /\ _line' = line                                   \* 112
                /\ _line_meta' = LineMeta(meta)                    \* 113-115
                /\ attrs' = {"stream", "_line_coords", "_line", "_line_meta"}
                /\ UNCHANGED <<dst, lineFile>>

-----------------------------------------------------------------------------
(* Inputs. *)

StrDest == [type |-> "str", val |-> "points.shp"]
ObjDest == [type |-> "other", val |-> "fileobj"]
Destinations == {StrDest, ObjDest}
Lines == {None, "line.shp"}
DefaultCrs == "EPSG:4326"
DefaultDriver == "ESRI Shapefile"

OvNames == {<<"course">>, <<"status">>, <<"type">>, <<"a", ":", "b">>}
OvDefs == {<<"int", ":", "3">>, <<"str">>, <<"float", ":", "12", ",", "1">>}
OvPairs == {<<n, d>> : n \in OvNames, d \in OvDefs}
Overrides == UNION {[1..n -> OvPairs] : n \in 0..MaxOverrides}

\* A token without a colon.
BadToken == <<"heading">>

\* List and string field specs that hold a token without a colon.
Malformed(ov) ==
    LET ls == {Append(AsList(ov), BadToken), <<BadToken>> \o AsList(ov)}
    IN  {[kind |-> "list", val |-> l] : l \in ls}
          \cup {[kind |-> "str", val |-> Join(l, ",")] : l \in ls}

FieldSpecs(ov) ==
    {NoFields, OtherFields, DictFields(ov), ListFields(ov), StrFields(ov)}
      \cup Malformed(ov)

Empty ==
    /\ pc = "new"
    /\ args = [f |-> StrDest, line |-> None, crs |-> DefaultCrs,
               driver |-> DefaultDriver, fields |-> NoFields]
    /\ raised = "none"
    /\ attrs = {}
    /\ properties = <<>>
    /\ _line = None
    /\ _line_coords = <<>>
    /\ _line_meta = PointMeta(<<>>, DefaultCrs, DefaultDriver)
    /\ stream = "unopened"
    /\ dst = "unopened"
    /\ opens = <<>>
    /\ pointFile = <<>>
    /\ lineFile = <<>>
    /\ calls = <<>>
    /\ forwarded = <<>>

-----------------------------------------------------------------------------
(* Schema resolution runs: a list of overrides is drawn, and the           *)
(* constructor is called with it in one of the syntaxes, with a malformed  *)
(* variant of it, with None or with an object of another type.             *)

InitResolve == Empty /\ overrides \in Overrides

NextResolve ==
    \E f \in Destinations, line \in Lines, fields \in FieldSpecs(overrides) :
        Construct(f, line, DefaultCrs, DefaultDriver, fields, TRUE)

SpecResolve == InitResolve /\ [][NextResolve]_vars

-----------------------------------------------------------------------------
(* Vector.write, lines 122-135.                                            *)

LON == <<"lon">>
LAT == <<"lat">>

\* Line 125: `x is not None and y is not None`.
HasPosition(x, y) == x # None /\ y # None

\* Line 132 copying the whole message instead of the schema's fields.
FeaturePropertiesOfMessage(msg, props) == msg

\* Line 132: {f: msg.get(f) for f in self.stream.meta['schema']['properties']}
FeatureProperties(msg, props) == [k \in Keys(props) |-> Get(msg, k)]

\* Lines 126-133: the feature handed to self.stream.write.
PointFeature(x, y, msg, props) ==
    [type |-> "Feature",
     geometry |-> [type |-> "Point", coordinates |-> <<x, y>>],
     properties |-> FeatureProperties(msg, props)]

\* Lines 134-135 appending whatever the line option is.
TrackAlways(line, coords, x, y) == Append(coords, <<x, y>>)

\* Lines 134-135 appending only pairs without a null.
TrackValidOnly(line, coords, x, y) ==
    IF Truthy(line) /\ x # None /\ y # None THEN Append(coords, <<x, y>>) ELSE coords

\* Lines 134-135: `if self._line: self._line_coords.append((x, y))`.
Track(line, coords, x, y) ==
    IF Truthy(line) THEN Append(coords, <<x, y>>) ELSE coords

\* A stream that still stores features after it was closed.
StreamAcceptsAlways(state, ioOk) == ioOk

\* self.stream.write(feature), line 126: an open collection stores the feature
\* unless the I/O layer fails (ioOk false); a closed collection raises.
StreamAccepts(state, ioOk) == state = "open" /\ ioOk

NumCalls(op) == Cardinality({i \in 1..Len(calls) : calls[i].op = op})

\* write(msg).  An exception of self.stream.write leaves line 126 at once, so
\* lines 134-135 do not run.
Write(msg, ioOk) ==
    /\ pc = "ready"
    /\ NumCalls("write") < MaxWrites
    /\ LET x == Get(msg, LON)                                       \* 123
           y == Get(msg, LAT)                                       \* 124
           feature == PointFeature(x, y, msg, properties)
           ok == HasPosition(x, y) => StreamAccepts(stream, ioOk)
       IN  /\ forwarded' = IF HasPosition(x, y) THEN Append(forwarded, feature)
                           ELSE forwarded
           /\ pointFile' = IF HasPosition(x, y) /\ ok THEN Append(pointFile, feature)
                           ELSE pointFile
           /\ _line_coords' = IF ok THEN Track(_line, _line_coords, x, y)
                              ELSE _line_coords
           /\ raised' = IF ok THEN "none" ELSE "IOError"
    /\ calls' = Append(calls, [op |-> "write", msg |-> msg])
    /\ UNCHANGED <<pc, args, attrs, properties, _line, _line_meta, stream, dst,
                   opens, lineFile, overrides>>

-----------------------------------------------------------------------------
(* Vector.close, lines 137-149, one step per statement.                    *)

\* Line 139: `if self._line:` enters the with block of 140-148 or goes to 149.
AfterStreamClose(line) == IF Truthy(line) THEN "close_open" ELSE "close_reset"

\* Line 138: self.stream.close().  When the I/O layer fails the error leaves
\* close() and the collection may or may not have been released.
CloseBegin(ioOk) ==
    /\ pc = "ready"
    /\ NumCalls("close") < MaxCloses
    /\ calls' = Append(calls, [op |-> "close", msg |-> <<>>])
    /\ IF ioOk
       THEN /\ stream' = "closed"
            /\ pc' = AfterStreamClose(_line)
            /\ UNCHANGED raised
       ELSE /\ stream' \in {stream, "closed"}
            /\ pc' = "ready"
            /\ raised' = "IOError"
    /\ UNCHANGED <<args, attrs, properties, _line, _line_coords, _line_meta, dst,
                   opens, pointFile, lineFile, forwarded, overrides>>

\* Line 140: fio.open(self._line, 'w', **self._line_meta) creates or truncates
\* the line destination; when it raises, the error leaves close().
LineOpen(ioOk) ==
    /\ pc = "close_open"
    /\ IF ioOk
       THEN /\ dst' = "open"
            /\ lineFile' = <<>>
            /\ opens' = Append(opens, [path |-> _line, mode |-> "w", meta |-> _line_meta])
            /\ pc' = "close_write"
            /\ UNCHANGED raised
       ELSE /\ pc' = "ready"
            /\ raised' = "IOError"
            /\ UNCHANGED <<dst, lineFile, opens>>
    /\ UNCHANGED <<args, attrs, properties, _line, _line_coords, _line_meta, stream,
                   pointFile, calls, forwarded, overrides>>

\* Lines 141-148 writing the pairs last first.
LineFeatureReversed(coords) ==
    [type |-> "Feature",
     properties |-> <<>>,
     geometry |-> [type |-> "LineString",
                   coordinates |-> [i \in 1..Len(coords) |-> coords[Len(coords) + 1 - i]]]]

\* Lines 141-148: the one feature of the line file.
LineFeature(coords) ==
    [type |-> "Feature",
     properties |-> <<>>,
     geometry |-> [type |-> "LineString", coordinates |-> coords]]

\* Lines 141-148: dst.write(feature); when it raises, the with statement is
\* left with the exception in flight.
LineWrite(ioOk) ==
    /\ pc = "close_write"
    /\ IF ioOk
       THEN /\ lineFile' = Append(lineFile, LineFeature(_line_coords))
            /\ pc' = "close_exit"
       ELSE /\ pc' = "close_exit_exc"
            /\ UNCHANGED lineFile
    /\ UNCHANGED <<args, raised, attrs, properties, _line, _line_coords, _line_meta,
                   stream, dst, opens, pointFile, calls, forwarded, overrides>>

\* A with block that releases the collection only when its body succeeded.
ExitStateNoCleanup(at) == IF at = "close_exit" THEN "closed" ELSE "open"

\* Line 140: leaving `with ... as dst` closes dst, with or without an exception.
ExitState(at) == "closed"

\* End of the with statement of line 140; an exception in flight then leaves close().
LineExit ==
    /\ pc \in {"close_exit", "close_exit_exc"}
    /\ dst' = ExitState(pc)
    /\ IF pc = "close_exit"
       THEN pc' = "close_reset" /\ UNCHANGED raised
       ELSE pc' = "ready" /\ raised' = "IOError"
    /\ UNCHANGED <<args, attrs, properties, _line, _line_coords, _line_meta, stream,
                   opens, pointFile, lineFile, calls, forwarded, overrides>>

\* Line 149 missing: the accumulator is kept.
ResetNever(line, coords) == coords

\* Line 149: self._line_coords = []
Reset(line, coords) == <<>>

\* Line 149, then close() returns.
CloseEnd ==
    /\ pc = "close_reset"
    /\ _line_coords' = Reset(_line, _line_coords)
    /\ pc' = "ready"
    /\ raised' = "none"
    /\ UNCHANGED <<args, attrs, properties, _line, _line_meta, stream, dst, opens,
                   pointFile, lineFile, calls, forwarded, overrides>>

-----------------------------------------------------------------------------
(* Lifecycle runs: the host constructs the driver, then calls write and    *)
(* close in any order.  Under Spec the I/O layer performs every operation  *)
(* asked of an open collection; under SpecIO any of them may raise.        *)

M1 == (LON :> "0") @@ (LAT :> "0") @@ (<<"heading">> :> "90") @@ (<<"callsign">> :> "X")
M2 == (LON :> "1") @@ (LAT :> "1") @@ (<<"status">> :> "moored")
M3 == (LON :> None) @@ (LAT :> "2") @@ (<<"mmsi">> :> "123")
M4 == (LON :> "2")
Messages == {M1, M2, M3, M4}

LifeFields == {NoFields, ListFields(<< <<<<"status">>, <<"str", ":", "20">>>> >>)}

Init == Empty /\ overrides = <<>>

Next ==
    \/ \E f \in Destinations, line \in Lines, fields \in LifeFields :
           Construct(f, line, DefaultCrs, DefaultDriver, fields, TRUE)
    \/ \E msg \in Messages : Write(msg, TRUE)
    \/ CloseBegin(TRUE)
    \/ LineOpen(TRUE)
    \/ LineWrite(TRUE)
    \/ LineExit
    \/ CloseEnd

Spec == Init /\ [][Next]_vars

NextIO ==
    \/ \E f \in Destinations, line \in Lines, fields \in LifeFields, ioOk \in BOOLEAN :
           Construct(f, line, DefaultCrs, DefaultDriver, fields, ioOk)
    \/ \E msg \in Messages, ioOk \in BOOLEAN : Write(msg, ioOk)
    \/ \E ioOk \in BOOLEAN : CloseBegin(ioOk)
    \/ \E ioOk \in BOOLEAN : LineOpen(ioOk)
    \/ \E ioOk \in BOOLEAN : LineWrite(ioOk)
    \/ LineExit
    \/ CloseEnd

SpecIO == Init /\ [][NextIO]_vars

-----------------------------------------------------------------------------
(* Properties of the lifecycle. *)

LastCall == calls[Len(calls)]

\* The step is a call of write().
WriteStep == Len(calls') = Len(calls) + 1 /\ calls'[Len(calls')].op = "write"

\* close() has returned and no call was made since.
CloseReturned == pc = "ready" /\ Len(calls) > 0 /\ LastCall.op = "close"

Coord(msg) ==
    <<IF LON \in DOMAIN msg THEN msg[LON] ELSE None,
      IF LAT \in DOMAIN msg THEN msg[LAT] ELSE None>>

Valid(c) == c[1] # None /\ c[2] # None

\* C1: with a line destination, after write calls followed by close() the
\* line destination holds exactly one feature, with no properties and a
\* LineString of the (lon, lat) pairs of all written messages in call order,
\* and the point destination holds one Point per message whose lon and lat
\* are both non-null, in call order.
C1_LineAndPoints ==
    (CloseReturned /\ Truthy(_line) /\ NumCalls("close") = 1) =>
        LET cs == [i \in 1..(Len(calls) - 1) |-> Coord(calls[i].msg)]
        IN  /\ Len(lineFile) = 1
            /\ lineFile[1].properties = <<>>
            /\ lineFile[1].geometry.type = "LineString"
            /\ lineFile[1].geometry.coordinates = cs
            /\ [k \in 1..Len(pointFile) |-> pointFile[k].geometry.coordinates]
                   = SelectSeq(cs, Valid)
            /\ \A k \in 1..Len(pointFile) : pointFile[k].geometry.type = "Point"

C1_Witness ==
    /\ CloseReturned /\ Truthy(_line) /\ NumCalls("close") = 1
    /\ Len(calls) = 4
    /\ calls[1].msg = M1 /\ calls[2].msg = M3 /\ calls[3].msg = M2
    /\ Len(pointFile) = 2

\* C2: write(msg) hands a point feature to the point stream exactly when lon
\* and lat are both present and non-null; otherwise it stores nothing and
\* raises nothing; with line-tracking every write that returns has appended
\* exactly the pair (lon, lat), nulls included, to the accumulator, and every
\* write on the open stream returns.
C2_WriteForwardsAndTracks ==
    [][WriteStep =>
          LET c == Coord(calls'[Len(calls')].msg)
          IN  /\ Len(forwarded') = Len(forwarded) + (IF Valid(c) THEN 1 ELSE 0)
              /\ ~Valid(c) => /\ raised' = "none"
                              /\ pointFile' = pointFile
                              /\ forwarded' = forwarded
              /\ stream = "open" =>
                     /\ raised' = "none"
                     /\ Len(pointFile') = Len(pointFile) + (IF Valid(c) THEN 1 ELSE 0)
              /\ (raised' = "none" /\ Truthy(_line)) =>
                     _line_coords' = Append(_line_coords, c)
      ]_vars

C2_Witness ==
    /\ pc = "ready" /\ stream = "open" /\ Truthy(_line)
    /\ Len(calls) = 2 /\ calls[1].msg = M3 /\ calls[2].msg = M4
    /\ _line_coords = << <<None, "2">>, <<"2", None>> >>
    /\ pointFile = <<>> /\ forwarded = <<>> /\ raised = "none"

\* C3: for a message with non-null lon and lat, write(msg) hands the stream
\* exactly one feature, a Point at (lon, lat), whose properties have exactly
\* the resolved schema's field names as keys, each mapped to the message's
\* value or to null when the message lacks it; no other message key appears.
C3_PointFeature ==
    [][(WriteStep /\ Valid(Coord(calls'[Len(calls')].msg))) =>
          LET msg == calls'[Len(calls')].msg
              ft == forwarded'[Len(forwarded')]
          IN  /\ Len(forwarded') = Len(forwarded) + 1
              /\ SubSeq(forwarded', 1, Len(forwarded)) = forwarded
              /\ ft.type = "Feature"
              /\ ft.geometry = [type |-> "Point", coordinates |-> <<msg[LON], msg[LAT]>>]
              /\ DOMAIN ft.properties = {properties[i][1] : i \in 1..Len(properties)}
              /\ \A k \in DOMAIN ft.properties :
                     ft.properties[k] = IF k \in DOMAIN msg THEN msg[k] ELSE None
              /\ stream = "open" => pointFile' = Append(pointFile, ft)
      ]_vars

C3_Witness ==
    /\ Len(calls) = 1 /\ LastCall.msg = M1
    /\ Len(pointFile) = 1
    /\ pointFile[1].geometry.coordinates = <<"0", "0">>
    /\ pointFile[1].properties[<<"heading">>] = "90"
    /\ pointFile[1].properties[<<"mmsi">>] = None
    /\ <<"callsign">> \notin DOMAIN pointFile[1].properties
    /\ <<"status">> \in DOMAIN pointFile[1].properties

\* C4: after close() has returned, following any write calls, the
\* accumulator is empty, with or without a line destination.
C4_AccumulatorEmptyAfterClose ==
    CloseReturned => _line_coords = <<>>

C4_Witness ==
    /\ CloseReturned /\ Truthy(_line)
    /\ NumCalls("write") = 2
    /\ Len(lineFile) = 1 /\ Len(lineFile[1].geometry.coordinates) = 2
    /\ _line_coords = <<>>

\* C8: without a line destination the accumulator stays empty through any
\* writes and closes, and close() never opens or writes a second destination.
C8_LineInert ==
    (pc \notin {"new", "failed"} /\ ~Truthy(_line)) =>
        /\ _line_coords = <<>>
        /\ dst = "unopened"
        /\ lineFile = <<>>
        /\ Len(opens) = 1
        /\ opens[1].path = args.f.val

C8_Witness ==
    /\ CloseReturned /\ _line = None
    /\ NumCalls("write") = 2 /\ NumCalls("close") = 2
    /\ Len(pointFile) = 1

\* C9 as claimed: once close() has returned, every later write(msg) fails
\* with an error and changes nothing: no point feature is stored and the
\* accumulator stays empty.
C9_Original ==
    [][(WriteStep /\ NumCalls("close") > 0) =>
          /\ raised' # "none"
          /\ pointFile' = pointFile
          /\ _line_coords' = _line_coords
          /\ _line_coords' = <<>>
      ]_vars

\* C9 amended: once close() has returned, no later write(msg) stores a point
\* feature; a write with both coordinates is handed to the closed stream,
\* fails and changes nothing; a write with a missing or null coordinate
\* raises nothing and, with line-tracking, appends its pair to the accumulator.
C9_WriteAfterClose ==
    [][(WriteStep /\ NumCalls("close") > 0) =>
          LET c == Coord(calls'[Len(calls')].msg)
          IN  /\ pointFile' = pointFile
              /\ stream' = "closed" /\ pc' = "ready"
              /\ Valid(c) => raised' # "none" /\ _line_coords' = _line_coords
              /\ ~Valid(c) =>
                     /\ raised' = "none"
                     /\ _line_coords' = IF Truthy(_line) THEN Append(_line_coords, c)
                                        ELSE _line_coords
      ]_vars

C9_Witness ==
    /\ pc = "ready" /\ stream = "closed" /\ Truthy(_line)
    /\ Len(calls) = 3
    /\ calls[1].op = "close" /\ calls[2].msg = M1 /\ calls[3].msg = M3
    /\ _line_coords = << <<None, "2">> >>
    /\ pointFile = <<>> /\ Len(forwarded) = 1

\* C10: the line destination is opened only inside close(), after the point
\* stream was closed, and is closed again before close() returns or raises,
\* also when writing the line feature fails: the two are never open together
\* and the line destination is never left open.
C10_LineScoped ==
    /\ [](/\ ~(stream = "open" /\ dst = "open")
          /\ pc \in {"new", "failed", "ready"} => dst # "open")
    /\ [][(dst' = "open" /\ dst # "open") => (pc = "close_open" /\ stream = "closed")]_vars

C10_Witness ==
    /\ pc = "ready" /\ raised = "IOError" /\ LastCall.op = "close"
    /\ Len(opens) = 2 /\ lineFile = <<>>
    /\ dst = "closed" /\ stream = "closed"
    /\ _line_coords # <<>>

-----------------------------------------------------------------------------
(* Properties of schema resolution. *)

Symbols(seq) == {seq[i] : i \in 1..Len(seq)}

\* Names hold neither ":" nor ",", definitions hold no ",".
Plain(ov) ==
    \A i \in 1..Len(ov) :
        /\ ":" \notin Symbols(ov[i][1]) /\ "," \notin Symbols(ov[i][1])
        /\ "," \notin Symbols(ov[i][2])

\* The definition given last for name n.
LastDefinition(ov, n) ==
    ov[CHOOSE i \in 1..Len(ov) :
           ov[i][1] = n /\ \A j \in (i + 1)..Len(ov) : ov[j][1] # n][2]

\* The defaults with each overridden name's definition replaced in place,
\* then each new name in order of first appearance.
ExpectedSchema(ov) ==
    LET named == {ov[i][1] : i \in 1..Len(ov)}
        defaults == {default_fields[i][1] : i \in 1..Len(default_fields)}
        first == {i \in 1..Len(ov) :
                     ov[i][1] \notin defaults /\ \A j \in 1..(i - 1) : ov[j][1] # ov[i][1]}
        nth(k) == CHOOSE i \in first : Cardinality({j \in first : j < i}) = k - 1
    IN  [i \in 1..Len(default_fields) |->
            IF default_fields[i][1] \in named
            THEN <<default_fields[i][1], LastDefinition(ov, default_fields[i][1])>>
            ELSE default_fields[i]]
        \o [k \in 1..Cardinality(first) |->
               <<ov[nth(k)][1], LastDefinition(ov, ov[nth(k)][1])>>]

Constructed == pc # "new" /\ args.f = StrDest

\* C5 as claimed: every list of overrides, the empty one included, resolves
\* to the same schema as a mapping, as a comma-joined string and as a list.
C5_Original ==
    Constructed =>
        /\ args.fields \in {DictFields(overrides), ListFields(overrides),
                            StrFields(overrides)}
             => raised = "none" /\ properties = ExpectedSchema(overrides)
        /\ args.fields = NoFields => raised = "none" /\ properties = default_fields

\* C5 amended: for overrides whose names hold no ":" or "," and whose
\* definitions hold no ",", the mapping, the list and, when there is at least
\* one override, the comma-joined string resolve to the same schema: the
\* defaults with overridden definitions replaced in place and new names
\* appended; None resolves to the defaults; the empty string raises.
C5_SameSchema ==
    Constructed =>
        /\ (Plain(overrides) /\ args.fields \in {DictFields(overrides), ListFields(overrides)})
             => raised = "none" /\ properties = ExpectedSchema(overrides)
        /\ (Plain(overrides) /\ overrides # <<>> /\ args.fields = StrFields(overrides))
             => raised = "none" /\ properties = ExpectedSchema(overrides)
        /\ args.fields = NoFields => raised = "none" /\ properties = default_fields
        /\ (overrides = <<>> /\ args.fields = StrFields(overrides))
             => raised = "ValueError" /\ pc = "failed"

C5_Witness ==
    /\ Constructed /\ pc = "ready"
    /\ overrides = << <<<<"status">>, <<"str">>>>, <<<<"course">>, <<"int", ":", "3">>>> >>
    /\ args.fields = StrFields(overrides)
    /\ properties[3] = <<<<"course">>, <<"int", ":", "3">>>>
    /\ properties[6] = <<<<"status">>, <<"str">>>>
    /\ Len(properties) = 6

\* A list or string field spec with a token that has no colon.
HasTokenWithoutColon(fields) ==
    LET tokens == IF fields.kind = "str" THEN Split(fields.val, ",") ELSE fields.val
    IN  /\ fields.kind \in {"str", "list"}
        /\ \E i \in 1..Len(tokens) : ":" \notin Symbols(tokens[i])

\* C6: a non-string destination, or a string or list field spec with a token
\* without colon, makes the constructor raise before the point stream is
\* opened: nothing is opened or created and no attribute of the driver exists.
C6_FailsBeforeOpen ==
    (pc # "new" /\ (args.f.type # "str" \/ HasTokenWithoutColon(args.fields))) =>
        /\ pc = "failed"
        /\ raised = IF args.f.type # "str" THEN "TypeError" ELSE "ValueError"
        /\ opens = <<>> /\ stream = "unopened" /\ dst = "unopened"
        /\ pointFile = <<>> /\ lineFile = <<>>
        /\ attrs = {}

C6_Witness ==
    /\ pc = "failed" /\ raised = "ValueError"
    /\ args.f = StrDest /\ args.fields.kind = "str"
    /\ Len(overrides) = 1
    /\ args.fields.val = AsString(overrides) \o <<",">> \o BadToken
    /\ opens = <<>> /\ attrs = {}

=============================================================================
